---------------------------- MODULE Spec2Model ----------------------------
(***************************************************************************)
(* Model of the CML preprocessing pipeline (preprocess_utility.py) and of  *)
(* the CNN classifier's tensor shapes (cnn_telcorain_v11.py).              *)
(*                                                                         *)
(* Floating point values are modelled as exact fractions n/d.  The IEEE    *)
(* special values are the fractions with d = 0:  0/0 is NaN (pandas'       *)
(* missing value), 1/0 is +inf and -1/0 is -inf.                           *)
(***************************************************************************)
EXTENDS Integers, Sequences, FiniteSets, TLC

VARIABLES task,     \* which function is being run: "cml", "ref" or "cnn"
          pc,       \* position inside that function
          cml,      \* the DataFrame: [rsl_A, rsl_B] in cml_preprocess,
                    \* [rain] and later [rain, ref_wd] in ref_preprocess
          cfg,      \* keyword arguments of the function
          input,    \* the DataFrame (cnn_class.forward: the tensor) the
                    \* function was called with
          prev,     \* the DataFrame before the step that ran last
          last,     \* the step that ran last
          net,      \* cnn_class: the hyperparameters set by __init__
          tensor    \* cnn_class.forward: its x, as [shape, range]

vars == <<task, pc, cml, cfg, input, prev, last, net, tensor>>

-----------------------------------------------------------------------------
(* Bounds of the model *)

MaxLen == 3

-----------------------------------------------------------------------------
(* Exact arithmetic with IEEE special values *)

NaN == [n |-> 0, d |-> 0]
PosInf == [n |-> 1, d |-> 0]
NegInf == [n |-> -1, d |-> 0]

Abs(i) == IF i < 0 THEN -i ELSE i
Sgn(i) == IF i < 0 THEN -1 ELSE IF i > 0 THEN 1 ELSE 0

RECURSIVE GCD(_, _)
GCD(a, b) == IF b = 0 THEN a ELSE GCD(b, a % b)

\* The fraction n/d in lowest terms with a positive denominator
Norm(n, d) ==
    IF d = 0 THEN [n |-> Sgn(n), d |-> 0]
    ELSE LET g == GCD(Abs(n), Abs(d))
             s == Sgn(d)
         IN  [n |-> (s * n) \div g, d |-> (s * d) \div g]

R(i) == [n |-> i, d |-> 1]

IsNaN(x) == x.d = 0 /\ x.n = 0
IsInf(x) == x.d = 0 /\ x.n # 0
IsFinite(x) == x.d # 0

Add(x, y) ==
    IF IsInf(x) /\ IsInf(y) THEN (IF x.n = y.n THEN x ELSE NaN)
    ELSE Norm(x.n * y.d + y.n * x.d, x.d * y.d)
Neg(x) == [n |-> -x.n, d |-> x.d]
Sub(x, y) == Add(x, Neg(y))
Mul(x, y) == Norm(x.n * y.n, x.d * y.d)
Div(x, y) == Norm(x.n * y.d, x.d * y.n)

\* IEEE comparisons: every comparison with NaN is false
Lt(x, y) ==
    /\ ~IsNaN(x)
    /\ ~IsNaN(y)
    /\ IF x.d = 0 /\ y.d = 0 THEN x.n < y.n ELSE x.n * y.d < y.n * x.d
Gt(x, y) == Lt(y, x)
Le(x, y) == ~IsNaN(x) /\ ~IsNaN(y) /\ ~Lt(y, x)
Eq(x, y) == ~IsNaN(x) /\ ~IsNaN(y) /\ x = y

-----------------------------------------------------------------------------
(* pandas / numpy reductions of one column; NaN is skipped (skipna=True) *)

\* The function f on 1..n as an explicit sequence (its entries are then
\* computed once, not at every use)
Column(f) == SubSeq(f, 1, Len(f))

Valid(s) == {i \in 1..Len(s) : ~IsNaN(s[i])}

RECURSIVE SumRange(_, _, _, _)
\* The sum of the entries lo..hi of s that are in I (the order of a sum does
\* not matter in exact arithmetic; halving keeps the evaluation shallow)
SumRange(s, I, lo, hi) ==
    IF lo > hi THEN R(0)
    ELSE IF lo = hi THEN (IF lo \in I THEN s[lo] ELSE R(0))
    ELSE LET mid == (lo + hi) \div 2
         IN  Add(SumRange(s, I, lo, mid), SumRange(s, I, mid + 1, hi))

SumOver(s, I) == SumRange(s, I, 1, Len(s))

\* Series.max(): NaN for an empty or all-NaN column
SeriesMax(s) ==
    IF Valid(s) = {} THEN NaN
    ELSE s[CHOOSE i \in Valid(s) : \A j \in Valid(s) : ~Lt(s[i], s[j])]

\* Series.min()
SeriesMin(s) ==
    IF Valid(s) = {} THEN NaN
    ELSE s[CHOOSE i \in Valid(s) : \A j \in Valid(s) : ~Lt(s[j], s[i])]

\* Series.mean(): sum / count, 0/0 = NaN when nothing is valid
SeriesMean(s) == Div(SumOver(s, Valid(s)), R(Cardinality(Valid(s))))

\* Sample variance (ddof = 1) of the entries I of s; 0/0 = NaN for one entry
VarOver(s, I) ==
    LET m  == Div(SumOver(s, I), R(Cardinality(I)))
        sq == Column([i \in 1..Len(s) |-> Mul(Sub(s[i], m), Sub(s[i], m))])
    IN  Div(SumOver(sq, I), R(Cardinality(I) - 1))

\* Series.std() squared
SeriesVar(s) == VarOver(s, Valid(s))

-----------------------------------------------------------------------------
(* DataFrame.interpolate(method='linear', limit=...), one column.           *)
(* limit_direction is 'forward': NaNs before the first valid value stay,    *)
(* NaNs after the last valid value take the last valid value, and of a run  *)
(* of NaNs only the first `limit` are filled.                               *)

LastValidBefore(s, i) ==
    LET P == {p \in Valid(s) : p < i}
    IN  IF P = {} THEN 0 ELSE CHOOSE p \in P : \A q \in P : q <= p

FirstValidAfter(s, i) ==
    LET Q == {q \in Valid(s) : q > i}
    IN  IF Q = {} THEN 0 ELSE CHOOSE q \in Q : \A r \in Q : q <= r

\* np.interp between the valid neighbours p < i < q
LinearBetween(s, p, i, q) ==
    Add(s[p], Mul(Div(Sub(s[q], s[p]), R(q - p)), R(i - p)))

InterpolateLimit(s, limit) ==
    Column([i \in 1..Len(s) |->
        IF ~IsNaN(s[i]) THEN s[i]
        ELSE LET p == LastValidBefore(s, i)
                 q == FirstValidAfter(s, i)
             IN  IF p = 0 \/ i - p > limit THEN NaN
                 ELSE IF q = 0 THEN s[p]
                 ELSE LinearBetween(s, p, i, q)])

\* limit=None: no run is too long
Interpolate(s) == InterpolateLimit(s, Len(s))

InterpolateFrame(t) ==
    [rsl_A |-> Interpolate(t.rsl_A), rsl_B |-> Interpolate(t.rsl_B)]

\* The subsequence of s at the rows in Keep (dropna + reset_index)
RECURSIVE SelectRows(_, _, _, _)
SelectRows(s, keep, lo, hi) ==
    IF lo > hi THEN <<>>
    ELSE IF lo = hi THEN (IF keep[lo] THEN <<s[lo]>> ELSE <<>>)
    ELSE LET mid == (lo + hi) \div 2
         IN  SelectRows(s, keep, lo, mid) \o SelectRows(s, keep, mid + 1, hi)

\* dropna(how='all', subset=['rsl_A','rsl_B']); reset_index(drop=True)
DropAllNaN(t) ==
    LET keep == Column([i \in 1..Len(t.rsl_A) |->
                    ~(IsNaN(t.rsl_A[i]) /\ IsNaN(t.rsl_B[i]))])
    IN  [rsl_A |-> SelectRows(t.rsl_A, keep, 1, Len(t.rsl_A)),
         rsl_B |-> SelectRows(t.rsl_B, keep, 1, Len(t.rsl_B))]

\* cml_preprocess, lines 99-102
FirstInterpolation(t, interp_max_gap) ==
    InterpolateFrame(DropAllNaN(
        [rsl_A |-> InterpolateLimit(t.rsl_A, interp_max_gap),
         rsl_B |-> InterpolateLimit(t.rsl_B, interp_max_gap)]))

-----------------------------------------------------------------------------
(* cml_suppress_extremes_z *)

\* (x - mean)/std < c, with std = sqrt(var); false when the quotient is NaN
ZLess(x, mean, var, c) ==
    LET dlt == Sub(x, mean)
    IN  /\ IsFinite(dlt)
        /\ IsFinite(var)
        /\ var.n > 0
        /\ IF Le(R(0), c)
           THEN Lt(dlt, R(0)) \/ Lt(Mul(dlt, dlt), Mul(Mul(c, c), var))
           ELSE Lt(dlt, R(0)) /\ Lt(Mul(Mul(c, c), var), Mul(dlt, dlt))

\* (x - mean)/std > c
ZGreater(x, mean, var, c) == ZLess(Neg(x), Neg(mean), var, Neg(c))

ZLowerBound == -3

\* Lines 169-172 for one column
SuppressZColumn(s, z_threshold) ==
    LET mean == SeriesMean(s)
        var  == SeriesVar(s)
    IN  Column([i \in 1..Len(s) |->
            IF /\ ZLess(s[i], mean, var, R(z_threshold))
               /\ ZGreater(s[i], mean, var, R(ZLowerBound))
            THEN s[i] ELSE NaN])

cml_suppress_extremes_z(t, z_threshold) ==
    InterpolateFrame([rsl_A |-> SuppressZColumn(t.rsl_A, z_threshold),
                      rsl_B |-> SuppressZColumn(t.rsl_B, z_threshold)])

-----------------------------------------------------------------------------
(* cml_suppress_extremes_std *)

\* rolling(window, center=True).std() squared: the window of row i ends at
\* i + (window-1) div 2; NaN unless all `window` rows exist and are valid
RollingVar(s, window) ==
    Column([i \in 1..Len(s) |->
        LET hi == i + ((window - 1) \div 2)
            lo == hi - window + 1
        IN  IF lo < 1 \/ hi > Len(s) \/ \E j \in lo..hi : IsNaN(s[j])
            THEN NaN
            ELSE VarOver(s, lo..hi)])

\* fillna(method='bfill'): the next valid value
BFill(s) ==
    Column([i \in 1..Len(s) |->
        IF ~IsNaN(s[i]) \/ FirstValidAfter(s, i) = 0 THEN s[i]
        ELSE s[FirstValidAfter(s, i)]])

\* fillna(method='ffill'): the last valid value
FFill(s) ==
    Column([i \in 1..Len(s) |->
        IF ~IsNaN(s[i]) \/ LastValidBefore(s, i) = 0 THEN s[i]
        ELSE s[LastValidBefore(s, i)]])

\* |std| < std_threshold, with std = sqrt(var)
StdBelow(var, std_threshold) ==
    /\ ~IsNaN(var)
    /\ std_threshold > 0
    /\ Lt(var, R(std_threshold * std_threshold))

\* Lines 136-144 for one column
SuppressStdColumn(s, window_size, std_threshold) ==
    LET rolling == FFill(BFill(RollingVar(s, window_size)))
    IN  Column([i \in 1..Len(s) |->
            IF StdBelow(rolling[i], std_threshold) THEN s[i] ELSE NaN])

cml_suppress_extremes_std(t, window_size, std_threshold) ==
    InterpolateFrame(
        [rsl_A |-> SuppressStdColumn(t.rsl_A, window_size, std_threshold),
         rsl_B |-> SuppressStdColumn(t.rsl_B, window_size, std_threshold)])

-----------------------------------------------------------------------------
(* cml_suppress_step *)

StepHalf == 100
PeakProminence == 1

Min2(a, b) == IF a < b THEN a ELSE b
Max2(a, b) == IF a < b THEN b ELSE a

\* step = hstack(ones(100), -ones(100)), 0-based index k
StepKernel(k) == IF k < StepHalf THEN 1 ELSE -1
StepLen == 2 * StepHalf

\* Line 199: (x - min) / (max - min)
MinMaxColumn(s) ==
    LET lo == SeriesMin(s)
        hi == SeriesMax(s)
    IN  Column([i \in 1..Len(s) |-> Div(Sub(s[i], lo), Sub(hi, lo))])

\* Entry t (0-based) of the full convolution of s with the step kernel:
\* the sum of s[j] * step[t - j] over the rows j the kernel covers
ConvAt(s, t) ==
    LET rows  == {j \in 1..Len(s) : t - (j - 1) >= 0 /\ t - (j - 1) < StepLen}
        terms == Column([j \in 1..Len(s) |->
                    IF j \in rows THEN Mul(s[j], R(StepKernel(t - (j - 1))))
                    ELSE R(0)])
    IN  SumOver(terms, rows)

AbsR(x) == [n |-> Abs(x.n), d |-> x.d]

\* Line 201: abs(np.convolve(x, step, mode='valid')): the entries of the full
\* convolution where the shorter operand lies wholly inside the longer one
ConvValid(s) ==
    LET n     == Len(s)
        first == Min2(n, StepLen) - 1
        count == Max2(n, StepLen) - Min2(n, StepLen) + 1
    IN  Column([k \in 1..count |-> AbsR(ConvAt(s, first + k - 1))])

\* Line 202: 100 zeros before, 99 zeros after
ConvPadded(s) ==
    LET c == ConvValid(s)
    IN  Column([p \in 1..(StepHalf + Len(c) + StepHalf - 1) |->
            IF p <= StepHalf \/ p > StepHalf + Len(c) THEN R(0)
            ELSE c[p - StepHalf]])

\* convDF.conv.where(step_mask), step_mask = conv > conv_threshold
MaskedConv(conv, conv_threshold) ==
    Column([p \in 1..Len(conv) |->
        IF Gt(conv[p], R(conv_threshold)) THEN conv[p] ELSE NaN])

\* scipy _local_maxima_1d: the first position after i (1-based) that ends
\* the plateau starting at i, or the last position of x
Ahead(x, i) ==
    LET E == {k \in (i + 1)..Len(x) : k = Len(x) \/ ~Eq(x[k], x[i])}
    IN  CHOOSE k \in E : \A m \in E : k <= m

\* scipy _local_maxima_1d: the plateaus strictly higher than both
\* neighbours, each named by the 1-based position where it starts
PlateauStarts(x) ==
    {i \in 2..(Len(x) - 1) : Lt(x[i - 1], x[i]) /\ Lt(x[Ahead(x, i)], x[i])}

\* The midpoint (0-based) of the plateau starting at i
Midpoint(x, i) == (i + Ahead(x, i) - 3) \div 2

\* scipy _peak_prominences: the lowest value between the peak at pk and the
\* nearest position in direction dir where the signal is higher than the peak
\* (or is NaN), or the end of the signal
BaseMin(x, pk, dir) ==
    LET side == IF dir < 0 THEN 1..pk ELSE pk..Len(x)
        stop == {i \in side : ~Le(x[i], x[pk])}
        edge == IF stop = {} THEN (IF dir < 0 THEN 0 ELSE Len(x) + 1)
                ELSE CHOOSE i \in stop :
                        \A j \in stop : IF dir < 0 THEN j <= i ELSE i <= j
        walk == {i \in side : IF dir < 0 THEN i > edge ELSE i < edge}
    IN  x[CHOOSE i \in walk : \A j \in walk : ~Lt(x[j], x[i])]

\* Prominence of the peak at 1-based position pk
Prominence(x, pk) ==
    LET l == BaseMin(x, pk, -1)
        r == BaseMin(x, pk, 1)
    IN  Sub(x[pk], IF Lt(l, r) THEN r ELSE l)

RECURSIVE SortedSeq(_)
\* The numbers of S in increasing order
SortedSeq(S) ==
    IF S = {} THEN <<>>
    ELSE LET m == CHOOSE a \in S : \A b \in S : a <= b
         IN  <<m>> \o SortedSeq(S \ {m})

\* find_peaks(x, prominence=1): 0-based peak indices in increasing order
FindPeaks(x) ==
    SortedSeq({Midpoint(x, i) : i \in
        {j \in PlateauStarts(x) :
            Le(R(PeakProminence), Prominence(x, Midpoint(x, j) + 1))}})

\* Lines 212-213: step_loc = [0] + peaks
StepLoc(s, conv_threshold) ==
    <<0>> \o FindPeaks(MaskedConv(ConvPadded(s), conv_threshold))

\* Lines 216-220: every segment between consecutive boundaries, the last one
\* open-ended, has its own mean subtracted; slices are clamped to the column
SegmentOf(step_loc, row) ==
    CHOOSE i \in 1..Len(step_loc) :
        /\ step_loc[i] <= row
        /\ \A j \in 1..Len(step_loc) : step_loc[j] <= row => j <= i

SegmentRows(step_loc, i, n) ==
    {r \in 1..n : /\ step_loc[i] <= r - 1
                  /\ i < Len(step_loc) => r - 1 < step_loc[i + 1]}

SegmentMean(s, I) ==
    LET V == I \cap Valid(s) IN Div(SumOver(s, V), R(Cardinality(V)))

\* Lines 216-220 for the boundaries step_loc
AlignSegments(x, step_loc) ==
    LET means == Column([i \in 1..Len(step_loc) |->
                    SegmentMean(x, SegmentRows(step_loc, i, Len(x)))])
    IN  Column([r \in 1..Len(x) |->
            Sub(x[r], means[SegmentOf(step_loc, r - 1)])])

\* Lines 196-220 for one column
SuppressStepColumn(s, conv_threshold) ==
    LET x == MinMaxColumn(s)
    IN  AlignSegments(x, StepLoc(x, conv_threshold))

cml_suppress_step(t, conv_threshold) ==
    [rsl_A |-> SuppressStepColumn(t.rsl_A, conv_threshold),
     rsl_B |-> SuppressStepColumn(t.rsl_B, conv_threshold)]

-----------------------------------------------------------------------------
(* Normalisation, lines 113-114 *)

\* Scaling by the minimum instead of the maximum
NormalizeColumnByMin(s) ==
    LET m == SeriesMin(s) IN Column([i \in 1..Len(s) |-> Div(s[i], m)])

NormalizeColumn(s) ==
    LET m == SeriesMax(s) IN Column([i \in 1..Len(s) |-> Div(s[i], m)])

Normalize(t) ==
    [rsl_A |-> NormalizeColumn(t.rsl_A), rsl_B |-> NormalizeColumn(t.rsl_B)]

-----------------------------------------------------------------------------
(* cml_preprocess *)

\* Lines 99-116 as one function
cml_preprocess(t, c) ==
    LET t1 == FirstInterpolation(t, c.interp_max_gap)
        t2 == IF c.suppress_step
              THEN cml_suppress_step(t1, c.conv_threshold) ELSE t1
        t3 == IF c.std_method
              THEN cml_suppress_extremes_std(t2, c.window_size, c.std_threshold)
              ELSE t2
        t4 == IF c.z_method
              THEN cml_suppress_extremes_z(t3, c.z_threshold) ELSE t3
    IN  Normalize(t4)

\* The stage after `stage` that the keyword arguments enable (lines 105-114)
NextStage(stage, c) ==
    IF stage = "interp" /\ c.suppress_step THEN "step"
    ELSE IF stage \in {"interp", "step"} /\ c.std_method THEN "std"
    ELSE IF stage \in {"interp", "step", "std"} /\ c.z_method THEN "z"
    ELSE IF stage = "norm" THEN "done"
    ELSE "norm"

\* Input values: a few signal levels and the missing value
RslValues == {R(-1), R(0), R(2)}
ValuesA == RslValues \cup {NaN}
ValuesB == {R(2), NaN}

SeqOf(xs) == Column([i \in 1..Len(xs) |-> R(xs[i])])

\* Longer series for the cases that need them: one high outlier among nine
\* samples (in the middle, first), one low outlier among eleven, an
\* all-negative channel, gaps of two and three inside a channel
SpecialColumns ==
    { SeqOf(<<10, 10, 10, 10, 60, 10, 10, 10, 10>>),
      SeqOf(<<60, 10, 10, 10, 10, 10, 10, 10, 10>>),
      SeqOf(<<1, 1, 1, 1, 1, 0, 1, 1, 1, 1, 1>>),
      SeqOf(<<-3, -2>>),
      <<R(1), NaN, NaN, R(4)>>,
      <<R(1), NaN, NaN, NaN, R(5)>> }

ShortTables ==
    UNION { {[rsl_A |-> a, rsl_B |-> b] : a \in [1..n -> ValuesA],
                                          b \in [1..n -> ValuesB]}
            : n \in 1..MaxLen }

SpecialTables ==
    {[rsl_A |-> a, rsl_B |-> Column([i \in 1..Len(a) |-> R(2)])]
        : a \in SpecialColumns}

\* Series at least as long as the 200-sample step kernel: level 0 for 150
\* samples then level 1 for 150; levels 0, 1, 0 for 150 samples each; a
\* series alternating between 0 and 1; a constant series
StepSeries == Column([i \in 1..300 |-> IF i <= 150 THEN R(0) ELSE R(1)])

TwoStepSeries ==
    Column([i \in 1..450 |-> IF i <= 150 \/ i > 300 THEN R(0) ELSE R(1)])

AlternatingSeries == Column([i \in 1..200 |-> R(i % 2)])

ConstantSeries == Column([i \in 1..200 |-> R(2)])

LongColumns == {StepSeries, TwoStepSeries, AlternatingSeries, ConstantSeries}

LongTables ==
    {t \in {[rsl_A |-> a, rsl_B |-> b] : a \in LongColumns, b \in LongColumns} :
        Len(t.rsl_A) = Len(t.rsl_B)}

Tables == ShortTables \cup SpecialTables \cup LongTables

\* Keyword arguments; a stage that is off keeps the defaults of lines 69-72
DefaultConvThreshold == 20
DefaultWindowSize == 10
DefaultStdThreshold == 5
DefaultZThreshold == 10

Configs ==
    { [interp_max_gap |-> g,
       suppress_step |-> st, conv_threshold |-> ct,
       std_method |-> sm, window_size |-> w, std_threshold |-> sth,
       z_method |-> zm, z_threshold |-> zt] :
        g \in {1, 2},
        st \in BOOLEAN, ct \in {0, DefaultConvThreshold},
        sm \in BOOLEAN, w \in {2, 3, DefaultWindowSize},
        sth \in {1, DefaultStdThreshold},
        zm \in BOOLEAN, zt \in {1, 2, DefaultZThreshold} }

EnabledConfigs ==
    { c \in Configs :
        /\ ~c.suppress_step => c.conv_threshold = DefaultConvThreshold
        /\ c.std_method => c.window_size # DefaultWindowSize
                           /\ c.std_threshold = 1
        /\ ~c.std_method => c.window_size = DefaultWindowSize
                            /\ c.std_threshold = DefaultStdThreshold
        /\ c.z_method => c.z_threshold # DefaultZThreshold
        /\ ~c.z_method => c.z_threshold = DefaultZThreshold }

\* The step stage costs a 200-sample convolution per column, so it is run
\* on the shorter tables and on the long ones, with the other two anomaly
\* stages off, and the long tables are run with the step stage only; a
\* z_threshold of 2 flags nothing in a series of fewer than seven samples and
\* is tried on the longer series only
BoundedInputs(t, c) ==
    /\ c.suppress_step =>
            /\ \/ t \in ShortTables /\ Len(t.rsl_A) < MaxLen
               \/ t \in LongTables
            /\ c.interp_max_gap = 1
            /\ ~c.std_method
            /\ ~c.z_method
    /\ t \in LongTables => c.suppress_step
    /\ c.z_threshold = 2 => t \in SpecialTables

NoNet == [channels |-> 0, sample_size |-> 0, kernel_size |-> 0,
          n_fc_neurons |-> 0, n_filters |-> <<>>, training |-> FALSE]
NoTensor == [shape |-> <<>>, range |-> "none"]

InitCml ==
    /\ task = "cml"
    /\ pc = "interp"
    /\ input \in Tables
    /\ cml = input
    /\ cfg \in EnabledConfigs
    /\ BoundedInputs(input, cfg)
    /\ prev = input
    /\ last = "none"
    /\ net = NoNet
    /\ tensor = NoTensor

\* The bookkeeping of one stage of cml_preprocess
Advance(stage) ==
    /\ prev' = cml
    /\ last' = stage
    /\ pc' = NextStage(stage, cfg)
    /\ UNCHANGED <<task, cfg, input, net, tensor>>

\* Lines 99-102
FirstInterpolationStage ==
    /\ task = "cml"
    /\ pc = "interp"
    /\ cml' = FirstInterpolation(cml, cfg.interp_max_gap)
    /\ Advance("interp")

\* Lines 105-106
SuppressStepStage ==
    /\ task = "cml"
    /\ pc = "step"
    /\ cml' = cml_suppress_step(cml, cfg.conv_threshold)
    /\ Advance("step")

\* Lines 107-108
SuppressStdStage ==
    /\ task = "cml"
    /\ pc = "std"
    /\ cml' = cml_suppress_extremes_std(cml, cfg.window_size, cfg.std_threshold)
    /\ Advance("std")

\* Lines 109-110
SuppressZStage ==
    /\ task = "cml"
    /\ pc = "z"
    /\ cml' = cml_suppress_extremes_z(cml, cfg.z_threshold)
    /\ Advance("z")

\* Lines 113-116
NormalizeStage ==
    /\ task = "cml"
    /\ pc = "norm"
    /\ cml' = Normalize(cml)
    /\ Advance("norm")

NextCml ==
    \/ FirstInterpolationStage
    \/ SuppressStepStage
    \/ SuppressStdStage
    \/ SuppressZStage
    \/ NormalizeStage

SpecCml == InitCml /\ [][NextCml]_vars

-----------------------------------------------------------------------------
(* ref_preprocess *)

MaxRainLen == 5

\* cml.rain != 0 (NaN != 0 is True)
NonzeroMask(rain) == Column([i \in 1..Len(rain) |-> ~Eq(rain[i], R(0))])

\* np.roll(m, k): entry i of the result is entry i - k of m, cyclically
Roll(m, k) == Column([i \in 1..Len(m) |-> m[((i - 1 - k) % Len(m)) + 1]])

\* a[idx] = v for numpy's 0-based index idx; a negative idx counts from the end
SetIndex(a, idx, v) ==
    [a EXCEPT ![IF idx < 0 THEN Len(a) + idx + 1 ELSE idx + 1] = v]

\* Whether a[idx] exists (otherwise numpy raises IndexError)
InBounds(a, idx) == IF idx < 0 THEN -idx <= Len(a) ELSE idx < Len(a)

\* Lines 247-255: the positions (1-based) of the zeros to be replaced
SingleZeros(rain) ==
    LET nonzero_mask1   == NonzeroMask(rain)
        shifted_mask_L  == SetIndex(Roll(nonzero_mask1, -1), -1, FALSE)
        shifted_mask_R  == SetIndex(Roll(nonzero_mask1, 1), 1, FALSE)
        shifted_mask_RR == SetIndex(Roll(shifted_mask_R, 1), 1, FALSE)
    IN  {i \in 1..Len(rain) :
            /\ shifted_mask_L[i]
            /\ shifted_mask_R[i] \/ shifted_mask_RR[i]
            /\ ~nonzero_mask1[i]}

\* The placeholder 0.1 of line 258
Placeholder == [n |-> 1, d |-> 10]

\* Lines 247-258
SuppressSingleZeros(rain) ==
    Column([i \in 1..Len(rain) |->
        IF i \in SingleZeros(rain) THEN Placeholder ELSE rain[i]])

\* Lines 249-253 index positions -1 and 1 of arrays as long as rain
SingleZerosRaises(rain) == ~InBounds(rain, -1) \/ ~InBounds(rain, 1)

\* Lines 264-268: the positions (1-based) of the last sample of each rain period
LastIndices(rain) ==
    LET nonzero_mask2 == NonzeroMask(rain)
        shifted_mask  == SetIndex(Roll(nonzero_mask2, -1), -1, FALSE)
    IN  {i \in 1..Len(rain) : nonzero_mask2[i] /\ ~shifted_mask[i]}

\* Lines 271-272: rain[max(0, idx - (n-2)) : idx + 1] = 0 for every idx
CompensateInterp(rain, upsampled_n_times) ==
    Column([j \in 1..Len(rain) |->
        IF \E p \in LastIndices(rain) :
                /\ Max2(0, (p - 1) - (upsampled_n_times - 2)) <= j - 1
                /\ j - 1 < (p - 1) + 1
        THEN R(0) ELSE rain[j]])

\* bool(v): zero is False, everything else (NaN too) is True
AsBool(v) == ~Eq(v, R(0))

\* The condition of where() inverted: True is put where rain is zero
WetDryFlagInverted(rain) ==
    Column([i \in 1..Len(rain) |->
        IF ~Eq(rain[i], R(0)) THEN AsBool(rain[i]) ELSE TRUE])

\* Line 275: rain.where(rain == 0, True).astype(bool)
WetDryFlag(rain) ==
    Column([i \in 1..Len(rain) |->
        IF Eq(rain[i], R(0)) THEN AsBool(rain[i]) ELSE TRUE])

RainValues == {R(0), R(5), NaN}

ExampleRain == SeqOf(<<0, 0, 0, 5, 0, 5, 0, 0>>)

RainSeries ==
    UNION {[1..n -> RainValues] : n \in 1..MaxRainLen} \cup {ExampleRain}

DefaultUpsampled == 0

RefConfigs ==
    { [supress_single_zeros |-> z, comp_lin_interp |-> c,
       upsampled_n_times |-> k] :
        z \in BOOLEAN, c \in BOOLEAN, k \in 0..4 }

InitRef ==
    /\ task = "ref"
    /\ pc = "zeros"
    /\ \E r \in RainSeries : input = [rain |-> r]
    /\ cml = input
    /\ cfg \in {c \in RefConfigs :
                    ~c.comp_lin_interp => c.upsampled_n_times = DefaultUpsampled}
    /\ prev = input
    /\ last = "none"
    /\ net = NoNet
    /\ tensor = NoTensor

\* Lines 246-258; an index out of bounds raises IndexError
SingleZeroStep ==
    /\ task = "ref"
    /\ pc = "zeros"
    /\ IF ~cfg.supress_single_zeros
       THEN cml' = cml /\ pc' = "comp"
       ELSE IF SingleZerosRaises(cml.rain)
       THEN cml' = cml /\ pc' = "raised"
       ELSE cml' = [rain |-> SuppressSingleZeros(cml.rain)] /\ pc' = "comp"
    /\ prev' = cml
    /\ last' = "zeros"
    /\ UNCHANGED <<task, cfg, input, net, tensor>>

\* Lines 263-272
CompensateStep ==
    /\ task = "ref"
    /\ pc = "comp"
    /\ IF cfg.comp_lin_interp /\ cfg.upsampled_n_times >= 2
       THEN cml' = [rain |-> CompensateInterp(cml.rain, cfg.upsampled_n_times)]
       ELSE cml' = cml
    /\ pc' = "flag"
    /\ prev' = cml
    /\ last' = "comp"
    /\ UNCHANGED <<task, cfg, input, net, tensor>>

\* Lines 275-277
FlagStep ==
    /\ task = "ref"
    /\ pc = "flag"
    /\ cml' = [rain |-> cml.rain, ref_wd |-> WetDryFlag(cml.rain)]
    /\ pc' = "done"
    /\ prev' = cml
    /\ last' = "flag"
    /\ UNCHANGED <<task, cfg, input, net, tensor>>

NextRef == SingleZeroStep \/ CompensateStep \/ FlagStep

SpecRef == InitRef /\ [][NextRef]_vars

-----------------------------------------------------------------------------
(* cnn_class: tensor shapes and value ranges.  A tensor is [shape, range],  *)
(* range being what is known of its values: "any" real, "nonneg" (>= 0),    *)
(* "unit" (in [0,1]); Failed is the RuntimeError of a shape mismatch.       *)

MaxBatch == 2
MaxSample == 3
MaxWidth == 2

Failed == [shape |-> <<>>, range |-> "error"]

\* nn.Conv1d(dim_in, dim_out, kernel_size, padding='same'), stride 1: the
\* input is padded by kernel_size - 1 zeros in all, the smaller half in front
Conv1dSame(t, dim_in, dim_out, kernel_size) ==
    IF t = Failed \/ Len(t.shape) # 3 \/ t.shape[2] # dim_in THEN Failed
    ELSE LET total == kernel_size - 1
             left  == total \div 2
             right == total - left
         IN  [shape |-> <<t.shape[1], dim_out,
                          t.shape[3] + left + right - (kernel_size - 1)>>,
              range |-> "any"]

\* nn.ReLU
ReLU(t) == IF t = Failed THEN Failed ELSE [t EXCEPT !.range =
                IF t.range = "unit" THEN "unit" ELSE "nonneg"]

\* ConvBlock.forward, lines 37-42
ConvBlock(t, kernel_size, dim_in, dim, dim_out) ==
    ReLU(Conv1dSame(ReLU(Conv1dSame(t, dim_in, dim, kernel_size)),
                    dim, dim_out, kernel_size))

\* The mean taken over the channel axis (dim=1) instead of the time axis
MeanOverChannels(t) ==
    IF t = Failed \/ Len(t.shape) < 2 THEN Failed
    ELSE [t EXCEPT !.shape = <<t.shape[1]>> \o SubSeq(t.shape, 3, Len(t.shape))]

\* torch.mean(x, dim=-1): the last axis is removed
MeanLast(t) ==
    IF t = Failed \/ Len(t.shape) = 0 THEN Failed
    ELSE [t EXCEPT !.shape = SubSeq(t.shape, 1, Len(t.shape) - 1)]

\* nn.Linear(in_features, out_features): acts on the last axis
Linear(t, in_features, out_features) ==
    IF t = Failed \/ Len(t.shape) = 0 \/ t.shape[Len(t.shape)] # in_features
    THEN Failed
    ELSE [shape |-> [t.shape EXCEPT ![Len(t.shape)] = out_features],
          range |-> "any"]

\* nn.Dropout: when training, zeroes entries and scales the rest by
\* 1/(1-p), which keeps signs but not an upper bound
Dropout(t, training) ==
    IF training /\ t.range = "unit" THEN [t EXCEPT !.range = "nonneg"] ELSE t

\* nn.Sigmoid
Sigmoid(t) == IF t = Failed THEN Failed ELSE [t EXCEPT !.range = "unit"]

Nets ==
    { [channels |-> c, sample_size |-> s, kernel_size |-> k,
       n_fc_neurons |-> f, n_filters |-> nf, training |-> tr] :
        c \in 1..2, s \in 1..MaxSample, k \in 1..3, f \in 1..MaxWidth,
        nf \in [1..4 -> 1..MaxWidth], tr \in BOOLEAN }

InitCnn ==
    /\ task = "cnn"
    /\ pc = "cb1"
    /\ net \in Nets
    /\ \E batch \in 1..MaxBatch :
          tensor = [shape |-> <<batch, net.channels, net.sample_size>>,
                    range |-> "any"]
    /\ input = tensor
    /\ cml = <<>>
    /\ cfg = <<>>
    /\ prev = <<>>
    /\ last = "none"

\* One layer of forward has produced t
Layer(t, next) ==
    /\ tensor' = t
    /\ pc' = IF t = Failed THEN "raised" ELSE next
    /\ last' = pc
    /\ UNCHANGED <<task, cml, cfg, input, prev, net>>

\* Line 75
Cb1 ==
    /\ task = "cnn" /\ pc = "cb1"
    /\ Layer(ConvBlock(tensor, net.kernel_size, net.channels,
                       net.n_filters[1], net.n_filters[1]), "cb2")
\* Line 76
Cb2 ==
    /\ task = "cnn" /\ pc = "cb2"
    /\ Layer(ConvBlock(tensor, net.kernel_size, net.n_filters[1],
                       net.n_filters[2], net.n_filters[2]), "cb3")
\* Line 77
Cb3 ==
    /\ task = "cnn" /\ pc = "cb3"
    /\ Layer(ConvBlock(tensor, net.kernel_size, net.n_filters[2],
                       net.n_filters[3], net.n_filters[3]), "cb4")
\* Line 78
Cb4 ==
    /\ task = "cnn" /\ pc = "cb4"
    /\ Layer(ConvBlock(tensor, net.kernel_size, net.n_filters[3],
                       net.n_filters[4], net.n_filters[4]), "mean")
\* Line 79
MeanStep ==
    /\ task = "cnn" /\ pc = "mean"
    /\ Layer(MeanLast(tensor), "dense1")
\* Lines 82-83
Dense1 ==
    /\ task = "cnn" /\ pc = "dense1"
    /\ Layer(Dropout(ReLU(Linear(tensor, net.n_filters[4], net.n_fc_neurons)),
                     net.training), "dense2")
\* Lines 84-85
Dense2 ==
    /\ task = "cnn" /\ pc = "dense2"
    /\ Layer(Dropout(ReLU(Linear(tensor, net.n_fc_neurons, net.n_fc_neurons)),
                     net.training), "denseOut")
\* Lines 86-88
DenseOut ==
    /\ task = "cnn" /\ pc = "denseOut"
    /\ Layer(Sigmoid(Linear(tensor, net.n_fc_neurons, net.sample_size)), "done")

NextCnn == Cb1 \/ Cb2 \/ Cb3 \/ Cb4 \/ MeanStep \/ Dense1 \/ Dense2 \/ DenseOut

SpecCnn == InitCnn /\ [][NextCnn]_vars

-----------------------------------------------------------------------------
(* All three functions *)

Init == InitCml \/ InitRef \/ InitCnn
Next == NextCml \/ NextRef \/ NextCnn
Spec == Init /\ [][Next]_vars


-----------------------------------------------------------------------------
(* Properties of cml_preprocess, checked under SpecCml *)

Channels(t) == <<t.rsl_A, t.rsl_B>>

CmlDone == task = "cml" /\ pc = "done"

AllStagesOff == ~cfg.suppress_step /\ ~cfg.std_method /\ ~cfg.z_method

HasValid(s) == Valid(s) # {}

\* A channel without gaps that is neither all-negative nor all-zero: it
\* holds a positive sample
NotDegenerate(s) ==
    /\ Valid(s) = 1..Len(s)
    /\ \E i \in Valid(s) : Lt(R(0), s[i])

\* Every value in (0, 1] and the maximum equal to 1.0
InUnitRange(s) ==
    /\ \A i \in 1..Len(s) : Lt(R(0), s[i]) /\ Le(s[i], R(1))
    /\ Eq(SeriesMax(s), R(1))

\* C1: for every input table whose channels are not all-negative and not
\* all-zero, and every combination of the optional stages, every value of
\* rsl_A and of rsl_B in the returned table lies in (0, 1] and the maximum of
\* each channel is 1.0.
C1_NormalizedToUnitRange ==
    (/\ CmlDone
     /\ NotDegenerate(input.rsl_A)
     /\ NotDegenerate(input.rsl_B))
    => /\ InUnitRange(cml.rsl_A)
       /\ InUnitRange(cml.rsl_B)

NoGap(s) == \A i \in 1..Len(s) : ~IsNaN(s[i])

\* C2: after the first interpolate/drop/interpolate stage and after each
\* enabled anomaly stage, neither rsl_A nor rsl_B holds a missing value in
\* any row (first, interior or last), given that each channel of the input
\* holds at least one sample.
C2_NoStageLeavesGap ==
    (/\ task = "cml"
     /\ last \in {"interp", "step", "std", "z"}
     /\ HasValid(input.rsl_A)
     /\ HasValid(input.rsl_B))
    => /\ NoGap(cml.rsl_A)
       /\ NoGap(cml.rsl_B)

\* A channel whose samples are all equal (zero variance) or all missing
DegenerateStatistics(s) ==
    \/ Valid(s) = {}
    \/ /\ Valid(s) = 1..Len(s)
       /\ \A i, j \in 1..Len(s) : s[i] = s[j]

\* C3: the Z-score stage and the rolling-std stage null no sample of a
\* channel whose samples are all equal or all missing, and return every
\* sample of that channel unmodified.
C3_DegenerateStatisticsNoOp ==
    (task = "cml" /\ last \in {"std", "z"})
    => \A ch \in 1..2 :
          DegenerateStatistics(Channels(prev)[ch])
          => Channels(cml)[ch] = Channels(prev)[ch]

\* C4 as stated: for every input table and every configuration, running
\* cml_preprocess on its own output with the same configuration returns the
\* same rows and the same rsl_A and rsl_B values.
C4_IdempotentAlways ==
    CmlDone => cml_preprocess(cml, cfg) = cml

\* The maximum of each channel is positive
PositiveMax(t) ==
    /\ Lt(R(0), SeriesMax(t.rsl_A))
    /\ Lt(R(0), SeriesMax(t.rsl_B))

\* C4 amended: with the three anomaly stages off, and for every input table
\* whose channels each have a positive maximum once the gaps are filled,
\* running cml_preprocess on its own output with the same interp_max_gap
\* returns the same rows and the same rsl_A and rsl_B values.
C4_IdempotentWhenStagesOff ==
    (CmlDone /\ AllStagesOff /\ PositiveMax(prev))
    => cml_preprocess(cml, cfg) = cml

\* A run where rows were dropped or gaps filled, and the values rescaled
C4_Witness ==
    /\ CmlDone
    /\ AllStagesOff
    /\ PositiveMax(prev)
    /\ prev # input
    /\ cml # prev
    /\ \E i \in 1..Len(cml.rsl_A) : IsNaN(cml.rsl_A[i])

\* The samples of s with Z >= z_threshold or Z <= -3.0
Flagged(s, z_threshold) ==
    LET mean == SeriesMean(s)
        var  == SeriesVar(s)
    IN  {i \in Valid(s) :
            /\ IsFinite(var)
            /\ var.n > 0
            /\ \/ ~ZLess(s[i], mean, var, R(z_threshold))
               \/ ~ZGreater(s[i], mean, var, R(ZLowerBound))}

\* C9: each sample that cml_suppress_extremes_z flags is replaced by a value
\* between the minimum and the maximum of the unflagged samples of the same
\* channel, whatever its position (first, interior or last).
C9_ZReplacementWithinRange ==
    (task = "cml" /\ last = "z")
    => \A ch \in 1..2 :
          LET s    == Channels(prev)[ch]
              out  == Channels(cml)[ch]
              F    == Flagged(s, cfg.z_threshold)
              Kept == Valid(s) \ F
          IN  \A i \in F :
                 \E lo, hi \in Kept :
                    Le(s[lo], out[i]) /\ Le(out[i], s[hi])

\* The length of the run of missing samples of s that row i belongs to
RunLength(s, i) ==
    LET p == LastValidBefore(s, i)
        q == FirstValidAfter(s, i)
    IN  (IF q = 0 THEN Len(s) + 1 ELSE q) - p - 1

\* The rows of the input that line 100 keeps
KeptRows(t, interp_max_gap) ==
    {i \in 1..Len(t.rsl_A) :
        ~(/\ IsNaN(InterpolateLimit(t.rsl_A, interp_max_gap)[i])
          /\ IsNaN(InterpolateLimit(t.rsl_B, interp_max_gap)[i]))}

\* The row of the output that holds row i of the input
RowOf(t, interp_max_gap, i) ==
    Cardinality({j \in KeptRows(t, interp_max_gap) : j <= i})

\* C10: with all anomaly stages off, no sample of a run of more than
\* interp_max_gap consecutive missing samples of a channel is filled: its
\* row is dropped or the sample is still missing in the output.
C10_LongGapNotFilled ==
    (CmlDone /\ AllStagesOff)
    => \A ch \in 1..2 : \A i \in 1..Len(input.rsl_A) :
          LET s == Channels(input)[ch]
          IN  (IsNaN(s[i]) /\ RunLength(s, i) > cfg.interp_max_gap)
              => \/ i \notin KeptRows(input, cfg.interp_max_gap)
                 \/ IsNaN(Channels(cml)[ch][RowOf(input, cfg.interp_max_gap, i)])


-----------------------------------------------------------------------------
(* Properties of ref_preprocess, checked under SpecRef *)

RefDone == task = "ref" /\ pc = "done"

ExampleFlags == <<FALSE, FALSE, FALSE, TRUE, TRUE, TRUE, FALSE, FALSE>>

\* C5: for every rain series and every combination of supress_single_zeros,
\* comp_lin_interp and upsampled_n_times, the returned ref_wd has one entry
\* per rain sample and ref_wd[i] is true exactly when the corrected rain[i]
\* (the value after the two corrections, which is the value returned) is
\* nonzero; rain [0,0,0,5,0,5,0,0] with supress_single_zeros=True yields
\* ref_wd [F,F,F,T,T,T,F,F].
C5_FlagIsRainNonzero ==
    RefDone
    => /\ Len(cml.ref_wd) = Len(input.rain)
       /\ cml.rain = prev.rain
       /\ \A i \in 1..Len(input.rain) :
             cml.ref_wd[i] <=> ~Eq(prev.rain[i], R(0))
       /\ (/\ input.rain = ExampleRain
           /\ cfg.supress_single_zeros
           /\ ~cfg.comp_lin_interp)
          => cml.ref_wd = ExampleFlags

\* The example series, returned with the gap at index 4 flagged wet
C5_Witness ==
    /\ RefDone
    /\ input.rain = ExampleRain
    /\ cfg.supress_single_zeros
    /\ ~cfg.comp_lin_interp
    /\ cml.rain[5] = Placeholder
    /\ cml.ref_wd = ExampleFlags

\* rain[i] is a zero followed by a nonzero sample and preceded, one or two
\* samples back, by a nonzero sample; neighbours outside 1..Len(rain) do not
\* exist
IsSingleZero(rain, i) ==
    /\ Eq(rain[i], R(0))
    /\ i + 1 <= Len(rain) /\ ~Eq(rain[i + 1], R(0))
    /\ \/ i - 1 >= 1 /\ ~Eq(rain[i - 1], R(0))
       \/ i - 2 >= 1 /\ ~Eq(rain[i - 2], R(0))

\* C6: with supress_single_zeros=True, rain[i] is replaced by 0.1 for
\* exactly the indices i where rain[i] is zero, rain[i+1] is nonzero and
\* rain[i-1] or rain[i-2] is nonzero, every neighbour taken inside the
\* series only; this holds at every position and all other samples are left
\* unchanged.
C6_SingleZerosReplaced ==
    (/\ task = "ref"
     /\ last = "zeros"
     /\ pc = "comp"
     /\ cfg.supress_single_zeros)
    => \A i \in 1..Len(prev.rain) :
          cml.rain[i] = IF IsSingleZero(prev.rain, i)
                        THEN Placeholder ELSE prev.rain[i]

\* The last nonzero sample before a zero sample
IsTransition(rain, p) ==
    /\ p + 1 <= Len(rain)
    /\ ~Eq(rain[p], R(0))
    /\ Eq(rain[p + 1], R(0))

\* C7: with comp_lin_interp=True and upsampled_n_times = k >= 2, exactly the
\* last k-2 samples before each transition from a nonzero to a zero sample
\* are set to zero (the range clamped to the start of the series) and no
\* other sample is changed; with comp_lin_interp false or k < 2 no sample is
\* changed by this step.
C7_LeakageCompensation ==
    (task = "ref" /\ last = "comp")
    => \A j \in 1..Len(prev.rain) :
          cml.rain[j] =
             IF /\ cfg.comp_lin_interp
                /\ cfg.upsampled_n_times >= 2
                /\ \E p \in 1..Len(prev.rain) :
                      /\ IsTransition(prev.rain, p)
                      /\ p - (cfg.upsampled_n_times - 2) < j
                      /\ j <= p
             THEN R(0) ELSE prev.rain[j]


-----------------------------------------------------------------------------
(* Properties of cnn_class.forward, checked under SpecCnn *)

\* The shape forward's x must have once the layer named by `last` has run
ExpectedShape(N) ==
    CASE last = "cb1"      -> <<N, net.n_filters[1], net.sample_size>>
      [] last = "cb2"      -> <<N, net.n_filters[2], net.sample_size>>
      [] last = "cb3"      -> <<N, net.n_filters[3], net.sample_size>>
      [] last = "cb4"      -> <<N, net.n_filters[4], net.sample_size>>
      [] last = "mean"     -> <<N, net.n_filters[4]>>
      [] last = "dense1"   -> <<N, net.n_fc_neurons>>
      [] last = "dense2"   -> <<N, net.n_fc_neurons>>
      [] last = "denseOut" -> <<N, net.sample_size>>
      [] OTHER             -> <<N, net.channels, net.sample_size>>

\* C8: for any configuration and any batch size N, forward applied to a
\* tensor of shape (N, channels, sample_size) returns a tensor of shape
\* (N, sample_size): each ConvBlock keeps the time length and maps to
\* n_filters[i] channels, the mean removes the time axis, the dense layers
\* map n_filters[3] -> n_fc_neurons -> n_fc_neurons -> sample_size, no layer
\* raises, and every output value lies in [0,1].
C8_ShapeContract ==
    task = "cnn"
    => /\ pc # "raised"
       /\ tensor.shape = ExpectedShape(input.shape[1])
       /\ pc = "done" => /\ tensor.shape = <<input.shape[1], net.sample_size>>
                         /\ tensor.range = "unit"

\* A batch of two through a net with an even kernel (uneven padding), in
\* training mode, whose sample size differs from every layer width
C8_Witness ==
    /\ task = "cnn"
    /\ pc = "done"
    /\ input.shape = <<2, 2, 3>>
    /\ net.kernel_size = 2
    /\ net.training
    /\ net.n_filters = <<1, 2, 1, 2>>
    /\ tensor = [shape |-> <<2, 3>>, range |-> "unit"]


-----------------------------------------------------------------------------
(* Properties of cml_suppress_step, checked under SpecCml *)

AfterStep == task = "cml" /\ last = "step"

\* A channel without gaps whose samples are not all equal
Varying(s) ==
    /\ Valid(s) = 1..Len(s)
    /\ \E i, j \in 1..Len(s) : s[i] # s[j]

\* No convolution magnitude of the channel is above conv_threshold
NothingToDetect(s, conv_threshold) ==
    LET conv == ConvPadded(MinMaxColumn(s))
    IN  \A p \in 1..Len(conv) : ~Gt(conv[p], R(conv_threshold))

\* C11: cml_suppress_step returns a channel with the same length and the same
\* values as the input when the series is shorter than the 200-sample step
\* kernel, and more generally when no convolution magnitude of the channel
\* is above conv_threshold (stated here for the channels that have no gap
\* and are not constant).
C11_StepPassThrough ==
    AfterStep
    => \A ch \in 1..2 :
          LET s == Channels(prev)[ch]
          IN  (/\ Varying(s)
               /\ \/ Len(s) < StepLen
                  \/ NothingToDetect(s, cfg.conv_threshold))
              => Channels(cml)[ch] = s

\* The boundary list line 213 builds for a channel
Boundaries(s, conv_threshold) == StepLoc(MinMaxColumn(s), conv_threshold)

\* C12: for every series of at least 200 samples the boundary list is index
\* 0 followed by the peak indices in increasing order, the half-open
\* segments between consecutive boundaries (the last running to the series
\* end) partition all sample indices, no sample is discarded, and after the
\* call each segment of each channel has mean 0; the series at level 0 for
\* 150 samples then level 1 for 150 samples has exactly one step boundary,
\* at index 150.
C12_SegmentsMeanCentred ==
    (AfterStep /\ Len(prev.rsl_A) >= StepLen)
    => \A ch \in 1..2 :
          LET s   == Channels(prev)[ch]
              out == Channels(cml)[ch]
              n   == Len(s)
              loc == Boundaries(s, cfg.conv_threshold)
          IN  /\ loc[1] = 0
              /\ \A i \in 1..(Len(loc) - 1) : loc[i] < loc[i + 1]
              /\ loc[Len(loc)] < n
              /\ \A r \in 1..n :
                    Cardinality({i \in 1..Len(loc) :
                                    r \in SegmentRows(loc, i, n)}) = 1
              /\ Len(out) = n
              /\ \A i \in 1..Len(loc) :
                    Eq(SegmentMean(out, SegmentRows(loc, i, n)), R(0))
              /\ s = StepSeries => loc = <<0, 150>>

=============================================================================
